---------------------------- MODULE Spec2Model ----------------------------
(***************************************************************************)
(* State representation and feature-slot lifecycle of the ROVIO filter:   *)
(* DepthMap, StateAuxiliary, State and FilterState of                      *)
(* include/rovio/FilterStates.hpp.                                         *)
(*                                                                         *)
(* Doubles of the mean state are decimal floating-point numbers            *)
(* [m |-> mantissa, e |-> exponent] (value m * 10^e, m without trailing    *)
(* zeros), exact where the operands allow and truncated to SigDigits       *)
(* significant digits in products, quotients and roots.  Covariance        *)
(* entries are integer-valued doubles: the lifecycle operations only copy  *)
(* them, zero them or set them to one.                                     *)
(***************************************************************************)
EXTENDS Integers, Sequences, FiniteSets, TLC

\* Template parameters of State / FilterState (FilterStates.hpp:255, 491).
nMax == 2
nCam == 2

\* Significant digits kept by an operand of a product or a quotient.
SigDigits == 4
\* Terms of the power series of exp, sinh and cosh.
SeriesTerms == 10

----------------------------------------------------------------------------
(* Decimal floating point.                                                 *)

Abs(x) == IF x < 0 THEN -x ELSE x

Sign(x) == IF x < 0 THEN -1 ELSE IF x > 0 THEN 1 ELSE 0

RECURSIVE Pow10(_)
Pow10(k) == IF k <= 0 THEN 1 ELSE 10 * Pow10(k - 1)

RECURSIVE Digits(_)
Digits(n) == IF n < 10 THEN 1 ELSE 1 + Digits(n \div 10)

RECURSIVE StripZeros(_, _)
StripZeros(m, e) ==
    IF m = 0 THEN [m |-> 0, e |-> 0]
    ELSE IF m % 10 = 0 THEN StripZeros(m \div 10, e + 1)
    ELSE [m |-> m, e |-> e]

\* The double m * 10^e.
Dec(m, e) == StripZeros(m, e)

DecZero == Dec(0, 0)
DecOne == Dec(1, 0)

DecNeg(a) == [m |-> -a.m, e |-> a.e]

\* a cut (towards zero) to at most nd significant digits.
DecTrunc(a, nd) ==
    LET dg == Digits(Abs(a.m))
    IN  IF dg <= nd THEN a
        ELSE Dec(Sign(a.m) * (Abs(a.m) \div Pow10(dg - nd)), a.e + (dg - nd))

\* Decimal order of magnitude of a non-zero a: 10^(Mag-1) <= |a| < 10^Mag.
DecMag(a) == Digits(Abs(a.m)) + a.e

\* |a| < |b|
DecAbsLess(a, b) ==
    IF b.m = 0 THEN FALSE
    ELSE IF a.m = 0 THEN TRUE
    ELSE IF DecMag(a) # DecMag(b) THEN DecMag(a) < DecMag(b)
    ELSE LET lo == IF a.e < b.e THEN a.e ELSE b.e
         IN  Abs(a.m) * Pow10(a.e - lo) < Abs(b.m) * Pow10(b.e - lo)

\* a * b; the operands are cut so that the product fits in nine digits.
DecMul(a, b) ==
    LET ta == DecTrunc(a, SigDigits)
        tb == DecTrunc(b, 9 - SigDigits)
    IN  Dec(ta.m * tb.m, ta.e + tb.e)

\* a / b for b # 0: the dividend scaled to nine digits, the divisor cut to
\* SigDigits; exact whenever the divisor has at most SigDigits digits and
\* divides the scaled dividend.
DecDiv(a, b) ==
    LET tb == DecTrunc(b, SigDigits)
        up == 9 - Digits(Abs(a.m))
        q  == (Abs(a.m) * Pow10(up)) \div Abs(tb.m)
    IN  DecTrunc(Dec(Sign(a.m) * Sign(tb.m) * q, a.e - up - tb.e), 2 * SigDigits)

\* a + b; the smaller addend loses the digits below nine digits of the larger.
DecAdd(a, b) ==
    IF a.m = 0 THEN b
    ELSE IF b.m = 0 THEN a
    ELSE LET hi == IF DecMag(a) >= DecMag(b) THEN a ELSE b
             lo == IF DecMag(a) >= DecMag(b) THEN b ELSE a
             \* exponent of the sum's last kept digit
             ex == IF hi.e <= lo.e THEN hi.e
                   ELSE IF Digits(Abs(hi.m)) + (hi.e - lo.e) <= 8 THEN lo.e
                   ELSE hi.e - (8 - Digits(Abs(hi.m)))
             hm == hi.m * Pow10(hi.e - ex)
             lm == IF lo.e >= ex THEN lo.m * Pow10(lo.e - ex)
                   ELSE IF ex - lo.e > 9 THEN 0
                   ELSE Sign(lo.m) * (Abs(lo.m) \div Pow10(ex - lo.e))
         IN  Dec(hm + lm, ex)

RECURSIVE ISqrtBetween(_, _, _)
ISqrtBetween(x, lo, hi) ==
    IF hi - lo <= 1 THEN lo
    ELSE LET mid == (lo + hi) \div 2
         IN  IF mid * mid <= x THEN ISqrtBetween(x, mid, hi)
             ELSE ISqrtBetween(x, lo, mid)

\* Square root of a >= 0, to SigDigits digits.
DecSqrt(a) ==
    IF a.m = 0 THEN DecZero
    ELSE LET up0 == 8 - Digits(a.m)
             up  == IF (a.e - up0) % 2 = 0 THEN up0 ELSE up0 + 1
         IN  Dec(ISqrtBetween(a.m * Pow10(up), 0, 31623), (a.e - up) \div 2)


\* term + term*x/k + ... : the terms k .. SeriesTerms of the exponential series
RECURSIVE ExpSeries(_, _, _)
ExpSeries(x, term, k) ==
    IF k > SeriesTerms \/ term.m = 0 THEN DecZero
    ELSE DecAdd(term, ExpSeries(x, DecDiv(DecMul(term, x), Dec(k, 0)), k + 1))

\* The terms of the sinh (from term x, k = 2) or cosh (from term 1, k = 1)
\* series: each is the one before times x^2 / (k (k+1)).
RECURSIVE EvenSeries(_, _, _)
EvenSeries(xx, term, k) ==
    IF k > 2 * SeriesTerms \/ term.m = 0 THEN DecZero
    ELSE DecAdd(term,
                EvenSeries(xx, DecDiv(DecMul(term, xx), Dec(k * (k + 1), 0)), k + 2))

DecExp(x) == ExpSeries(x, DecOne, 1)

DecSinh(x) == EvenSeries(DecMul(x, x), x, 2)

DecCosh(x) == EvenSeries(DecMul(x, x), DecOne, 1)

----------------------------------------------------------------------------
(* DepthMap                                                                *)

DepthType == {"REGULAR", "INVERSE", "LOG", "HYPERBOLIC"}

\* DepthMap::setType(const DepthType&)
setTypeEnum(depthMap, type) == [depthMap EXCEPT !.type_ = type]

\* DepthMap::setType(const int&): the encoding selected, and whether the
\* "Invalid type" line was written to std::cout.
setType(depthMap, type) ==
    CASE type = 0 -> [depthMap |-> [depthMap EXCEPT !.type_ = "REGULAR"], cout |-> FALSE]
      [] type = 1 -> [depthMap |-> [depthMap EXCEPT !.type_ = "INVERSE"], cout |-> FALSE]
      [] type = 2 -> [depthMap |-> [depthMap EXCEPT !.type_ = "LOG"], cout |-> FALSE]
      [] type = 3 -> [depthMap |-> [depthMap EXCEPT !.type_ = "HYPERBOLIC"], cout |-> FALSE]
      [] OTHER    -> [depthMap |-> [depthMap EXCEPT !.type_ = "REGULAR"], cout |-> TRUE]

\* DepthMap::DepthMap(const DepthType& type = REGULAR)
DepthMapCtor == setTypeEnum([type_ |-> "REGULAR"], "REGULAR")

\* DepthMap::mapRegular
mapRegular(p) ==
    [d |-> p, d_p |-> DecOne, p_d |-> DecOne, p_d_p |-> DecZero]

\* mapInverse with "p_temp > 0" for "p_temp >= 0" in line 155.
mapInverse_ZeroNegative(p) ==
    LET p_temp == IF DecAbsLess(p, Dec(1, -6))
                  THEN IF p.m > 0 THEN Dec(1, -6) ELSE Dec(-1, -6)
                  ELSE p
        d == DecDiv(DecOne, p_temp)
    IN  [d |-> d,
         d_p |-> DecMul(DecNeg(d), d),
         p_d |-> DecMul(DecNeg(p_temp), p_temp),
         p_d_p |-> DecMul(Dec(-2, 0), p_temp)]

\* DepthMap::mapInverse
mapInverse(p) ==
    LET p_temp == IF DecAbsLess(p, Dec(1, -6))
                  THEN IF p.m >= 0 THEN Dec(1, -6) ELSE Dec(-1, -6)
                  ELSE p
        d == DecDiv(DecOne, p_temp)
    IN  [d |-> d,
         d_p |-> DecMul(DecNeg(d), d),
         p_d |-> DecMul(DecNeg(p_temp), p_temp),
         p_d_p |-> DecMul(Dec(-2, 0), p_temp)]

\* DepthMap::mapLog
mapLog(p) ==
    LET d == DecExp(p)
        d_p == DecExp(p)
    IN  [d |-> d,
         d_p |-> d_p,
         p_d |-> DecDiv(DecOne, d),
         p_d_p |-> DecMul(DecDiv(Dec(-1, 0), DecMul(d, d)), d_p)]

\* DepthMap::mapHyperbolic
mapHyperbolic(p) ==
    LET d == DecSinh(p)
        d_p == DecCosh(p)
        dd1 == DecAdd(DecMul(d, d), DecOne)
    IN  [d |-> d,
         d_p |-> d_p,
         p_d |-> DecDiv(DecOne, DecSqrt(dd1)),
         p_d_p |-> DecMul(DecDiv(DecNeg(d), DecMul(dd1, DecSqrt(dd1))), d_p)]

\* DepthMap::map
map(depthMap, p) ==
    CASE depthMap.type_ = "REGULAR"    -> mapRegular(p)
      [] depthMap.type_ = "INVERSE"    -> mapInverse(p)
      [] depthMap.type_ = "LOG"        -> mapLog(p)
      [] depthMap.type_ = "HYPERBOLIC" -> mapHyperbolic(p)
      [] OTHER                         -> mapRegular(p)

----------------------------------------------------------------------------
(* Vectors, quaternions, bearing vectors                                   *)

\* V3D with integer-valued components.
V3Zero == <<0, 0, 0>>

\* QPD: a unit quaternion <<w, x, y, z>>.
QuatIdentity == <<1, 0, 0, 0>>

\* Hamilton product of two quaternions.
QuatMul(a, b) ==
    <<a[1] * b[1] - a[2] * b[2] - a[3] * b[3] - a[4] * b[4],
      a[1] * b[2] + a[2] * b[1] + a[3] * b[4] - a[4] * b[3],
      a[1] * b[3] - a[2] * b[4] + a[3] * b[1] + a[4] * b[2],
      a[1] * b[4] + a[2] * b[3] - a[3] * b[2] + a[4] * b[1]>>

\* QPD::inverted() of a unit quaternion: its conjugate.
QuatInverted(q) == <<q[1], -q[2], -q[3], -q[4]>>

\* QPD::rotate(v): q (0, v) q^-1.  For the identity and the half turns about
\* the axes, the orientations used here, the active and the passive
\* convention give the same vector.
QuatRotate(q, v) ==
    LET r == QuatMul(QuatMul(q, <<0, v[1], v[2], v[3]>>), QuatInverted(q))
    IN  <<r[2], r[3], r[4]>>

\* LWF::NormalVectorElement::setIdentity: the reference direction e_z.
NorIdentity == <<0, 0, 1>>

\* LWF::NormalVectorElement::setFromVector(n): the unit vector along n, for
\* an n along one coordinate axis.
setFromVector(n) == <<Sign(n[1]), Sign(n[2]), Sign(n[3])>>

----------------------------------------------------------------------------
(* State layout: the blocks of State in declaration order.                 *)

Slots == 0 .. (nMax - 1)
Cams  == 0 .. (nCam - 1)

\* pos, vel, acb, gyb (VectorElement<3>) and att (QuaternionElement).
BodyDim == 4 * 3 + 3

\* State::D_
D_ == BodyDim + 3 * nCam + 3 * nCam + nMax + 2 * nMax

Ids == 0 .. (D_ - 1)

\* mtState::getId<_dep>(i)
depId(i) == BodyDim + 6 * nCam + i

\* mtState::getId<_nor>(i): first of the two indices of the bearing vector
norId(i) == BodyDim + 6 * nCam + nMax + 2 * i

\* The three covariance indices of slot i, in the order depth, bearing.
SlotIds(i) == {depId(i), norId(i), norId(i) + 1}

\* StateAuxiliary::StateAuxiliary()
StateAuxiliaryCtor ==
    [camID_ |-> [i \in Slots |-> 0],
     doVECalibration_ |-> TRUE,
     depthTypeInt_ |-> 1,
     depthMap_ |-> setType(DepthMapCtor, 1).depthMap,
     activeFeature_ |-> 0,
     activeCameraCounter_ |-> 0,
     qCM_ |-> [c \in Cams |-> QuatIdentity],
     MrMC_ |-> [c \in Cams |-> V3Zero]]

\* State::State(): every element at its identity.
StateCtor ==
    [pos |-> V3Zero, vel |-> V3Zero, acb |-> V3Zero, gyb |-> V3Zero,
     att |-> QuatIdentity,
     vep |-> [c \in Cams |-> V3Zero],
     vea |-> [c \in Cams |-> QuatIdentity],
     dep |-> [i \in Slots |-> DecZero],
     nor |-> [i \in Slots |-> NorIdentity],
     aux |-> StateAuxiliaryCtor]

----------------------------------------------------------------------------
(* State accessors                                                         *)

\* State::get_WrWM()
get_WrWM(state) == state.pos

\* State::get_qWM()
get_qWM(state) == state.att

\* State::get_qCM(camID)
get_qCM(state, camID) ==
    IF state.aux.doVECalibration_ THEN state.vea[camID]
    ELSE state.aux.qCM_[camID]

\* get_MrMC with the branches of line 383 exchanged.
get_MrMC_Swapped(state, camID) ==
    IF state.aux.doVECalibration_ THEN state.aux.MrMC_[camID]
    ELSE state.vep[camID]

\* State::get_MrMC(camID)
get_MrMC(state, camID) ==
    IF state.aux.doVECalibration_ THEN state.vep[camID]
    ELSE state.aux.MrMC_[camID]

\* State::get_depth(i)
get_depth(state, i) == map(state.aux.depthMap_, state.dep[i]).d

\* State::get_CfP(i)
get_CfP(state, i) == state.nor[i]

----------------------------------------------------------------------------
(* Covariance matrix: Eigen blocks                                         *)

IdentityMat == [r \in Ids |-> [c \in Ids |-> IF r = c THEN 1 ELSE 0]]

\* row with its entries c0 .. c0+k-1 replaced by brow[0 .. k-1]
RECURSIVE WriteRow(_, _, _, _)
WriteRow(row, c0, k, brow) ==
    IF k = 0 THEN row
    ELSE WriteRow([row EXCEPT ![c0 + k - 1] = brow[k - 1]], c0, k - 1, brow)

\* M.block<nr,nc>(r0,c0) = B, B indexed from 0
SetBlock(M, r0, c0, nr, nc, B) ==
    [r \in Ids |-> IF r >= r0 /\ r < r0 + nr
                   THEN WriteRow(M[r], c0, nc, B[r - r0]) ELSE M[r]]

\* M.block<nr,nc>(r0,c0).setZero()
ZeroBlock(M, r0, c0, nr, nc) ==
    SetBlock(M, r0, c0, nr, nc,
             [r \in 0 .. (nr - 1) |-> [c \in 0 .. (nc - 1) |-> 0]])

\* M.block<n,n>(r0,c0).setIdentity()
IdentityBlock(M, r0, c0, n) ==
    SetBlock(M, r0, c0, n, n,
             [r \in 0 .. (n - 1) |-> [c \in 0 .. (n - 1) |-> IF r = c THEN 1 ELSE 0]])

\* B.block<nr,nc>(r0,c0) of a small matrix B, indexed from 0
SubBlock(B, r0, c0, nr, nc) ==
    [r \in 0 .. (nr - 1) |-> [c \in 0 .. (nc - 1) |-> B[r0 + r][c0 + c]]]

----------------------------------------------------------------------------
(* FilterState: feature lifecycle.  fs = [state_ |-> .., cov_ |-> ..]      *)

\* FilterState::FilterState(): LWF::FilterState leaves the state at its
\* identity and the covariance at the identity matrix.
FilterStateCtor == [state_ |-> StateCtor, cov_ |-> IdentityMat]

\* FilterState::initWithImuPose(WrWM, qMW)
initWithImuPose(fs, WrWM, qMW) ==
    [fs EXCEPT !.state_.pos = QuatRotate(qMW, WrWM),
               !.state_.att = QuatInverted(qMW)]

\* initializeFeatureState without the setZero of the depth row (line 554).
initializeFeatureState_NoRowZero(fs, i, n, d, initCov) ==
    LET c1 == ZeroBlock(fs.cov_, 0, depId(i), D_, 1)
        c3 == ZeroBlock(c1, 0, norId(i), D_, 2)
        c4 == ZeroBlock(c3, norId(i), 0, 2, D_)
        c5 == SetBlock(c4, depId(i), depId(i), 1, 1, SubBlock(initCov, 0, 0, 1, 1))
        c6 == SetBlock(c5, depId(i), norId(i), 1, 2, SubBlock(initCov, 0, 1, 1, 2))
        c7 == SetBlock(c6, norId(i), depId(i), 2, 1, SubBlock(initCov, 1, 0, 2, 1))
        c8 == SetBlock(c7, norId(i), norId(i), 2, 2, SubBlock(initCov, 1, 1, 2, 2))
    IN  [state_ |-> [fs.state_ EXCEPT !.dep[i] = d, !.nor[i] = setFromVector(n)],
         cov_ |-> c8]

\* FilterState::initializeFeatureState(i, n, d, initCov)
initializeFeatureState(fs, i, n, d, initCov) ==
    LET c1 == ZeroBlock(fs.cov_, 0, depId(i), D_, 1)
        c2 == ZeroBlock(c1, depId(i), 0, 1, D_)
        c3 == ZeroBlock(c2, 0, norId(i), D_, 2)
        c4 == ZeroBlock(c3, norId(i), 0, 2, D_)
        c5 == SetBlock(c4, depId(i), depId(i), 1, 1, SubBlock(initCov, 0, 0, 1, 1))
        c6 == SetBlock(c5, depId(i), norId(i), 1, 2, SubBlock(initCov, 0, 1, 1, 2))
        c7 == SetBlock(c6, norId(i), depId(i), 2, 1, SubBlock(initCov, 1, 0, 2, 1))
        c8 == SetBlock(c7, norId(i), norId(i), 2, 2, SubBlock(initCov, 1, 1, 2, 2))
    IN  [state_ |-> [fs.state_ EXCEPT !.dep[i] = d, !.nor[i] = setFromVector(n)],
         cov_ |-> c8]

\* removeFeature without the setZero of the bearing columns (line 572).
removeFeature_NoColZero(fs, i) ==
    LET c1 == ZeroBlock(fs.cov_, 0, depId(i), D_, 1)
        c2 == ZeroBlock(c1, depId(i), 0, 1, D_)
        c4 == ZeroBlock(c2, norId(i), 0, 2, D_)
        c5 == IdentityBlock(c4, depId(i), depId(i), 1)
        c6 == IdentityBlock(c5, norId(i), norId(i), 2)
    IN  [state_ |-> [fs.state_ EXCEPT !.dep[i] = DecOne, !.nor[i] = NorIdentity],
         cov_ |-> c6]

\* removeFeature zeroing a block one column too wide in line 570 (the column
\* after the depth column belongs to another slot).
removeFeature_WideZero(fs, i) ==
    LET c1 == ZeroBlock(fs.cov_, 0, depId(i), D_, 2)
        c2 == ZeroBlock(c1, depId(i), 0, 1, D_)
        c3 == ZeroBlock(c2, 0, norId(i), D_, 2)
        c4 == ZeroBlock(c3, norId(i), 0, 2, D_)
        c5 == IdentityBlock(c4, depId(i), depId(i), 1)
        c6 == IdentityBlock(c5, norId(i), norId(i), 2)
    IN  [state_ |-> [fs.state_ EXCEPT !.dep[i] = DecOne, !.nor[i] = NorIdentity],
         cov_ |-> c6]

\* removeFeature without the setIdentity of the bearing block (line 575).
removeFeature_NoNorIdentity(fs, i) ==
    LET c1 == ZeroBlock(fs.cov_, 0, depId(i), D_, 1)
        c2 == ZeroBlock(c1, depId(i), 0, 1, D_)
        c3 == ZeroBlock(c2, 0, norId(i), D_, 2)
        c4 == ZeroBlock(c3, norId(i), 0, 2, D_)
        c5 == IdentityBlock(c4, depId(i), depId(i), 1)
    IN  [state_ |-> [fs.state_ EXCEPT !.dep[i] = DecOne, !.nor[i] = NorIdentity],
         cov_ |-> c5]

\* removeFeature with "+= 1.0" for "= 1.0" in line 568.
removeFeature_AddOne(fs, i) ==
    LET c1 == ZeroBlock(fs.cov_, 0, depId(i), D_, 1)
        c2 == ZeroBlock(c1, depId(i), 0, 1, D_)
        c3 == ZeroBlock(c2, 0, norId(i), D_, 2)
        c4 == ZeroBlock(c3, norId(i), 0, 2, D_)
        c5 == IdentityBlock(c4, depId(i), depId(i), 1)
        c6 == IdentityBlock(c5, norId(i), norId(i), 2)
    IN  [state_ |-> [fs.state_ EXCEPT !.dep[i] = DecAdd(@, DecOne),
                                      !.nor[i] = NorIdentity],
         cov_ |-> c6]

\* removeFeature resetting the depth parameter to 0.0 (the scalar element's
\* identity) for 1.0 in line 568.
removeFeature_DepZero(fs, i) ==
    LET c1 == ZeroBlock(fs.cov_, 0, depId(i), D_, 1)
        c2 == ZeroBlock(c1, depId(i), 0, 1, D_)
        c3 == ZeroBlock(c2, 0, norId(i), D_, 2)
        c4 == ZeroBlock(c3, norId(i), 0, 2, D_)
        c5 == IdentityBlock(c4, depId(i), depId(i), 1)
        c6 == IdentityBlock(c5, norId(i), norId(i), 2)
    IN  [state_ |-> [fs.state_ EXCEPT !.dep[i] = DecZero, !.nor[i] = NorIdentity],
         cov_ |-> c6]

\* FilterState::removeFeature(i)
removeFeature(fs, i) ==
    LET c1 == ZeroBlock(fs.cov_, 0, depId(i), D_, 1)
        c2 == ZeroBlock(c1, depId(i), 0, 1, D_)
        c3 == ZeroBlock(c2, 0, norId(i), D_, 2)
        c4 == ZeroBlock(c3, norId(i), 0, 2, D_)
        c5 == IdentityBlock(c4, depId(i), depId(i), 1)
        c6 == IdentityBlock(c5, norId(i), norId(i), 2)
    IN  [state_ |-> [fs.state_ EXCEPT !.dep[i] = DecOne, !.nor[i] = NorIdentity],
         cov_ |-> c6]

----------------------------------------------------------------------------
(* The filter as a state machine                                           *)

VARIABLES
    state_,   \* FilterState::state_ (mean state and auxiliary buffer)
    cov_,     \* FilterState::cov_
    active,   \* slots initialized and not removed since (not stored by the code)
    last,     \* the last call: its name, arguments, return value and the
              \* filter state it started from
    last2     \* the call before it, where a specification keeps it

vars == <<state_, cov_, active, last, last2>>

NoCall == [op |-> "none"]

Here == [state_ |-> state_, cov_ |-> cov_]

\* Arguments of initializeFeatureState: bearing n (not unit length), depth
\* value d, 3x3 initCov (symmetric, and not symmetric with distinct entries).
Mat3(r0, r1, r2) == [r \in 0 .. 2 |-> [c \in 0 .. 2 |-> <<r0, r1, r2>>[r + 1][c + 1]]]

InitArgs ==
    {[n |-> <<0, 0, 1>>, d |-> Dec(2, 0),
      initCov |-> Mat3(<<4, 1, 2>>, <<1, 5, 3>>, <<2, 3, 6>>)],
     [n |-> <<0, -3, 0>>, d |-> Dec(5, -1),
      initCov |-> Mat3(<<7, 8, 9>>, <<10, 11, 12>>, <<13, 14, 15>>)]}

\* Contents the prediction and update steps leave behind: every covariance
\* entry correlated (not symmetric for k = 1, symmetric for k = 2), every
\* feature and body block away from its default.
UpdateKinds == {1, 2}

UpdatedCov1 == [r \in Ids |-> [c \in Ids |-> 20 + ((2 * r + c) % 5)]]

UpdatedCov2 == [r \in Ids |-> [c \in Ids |-> 20 + ((r + c) % 5)]]

UpdatedCov(k) == IF k = 1 THEN UpdatedCov1 ELSE UpdatedCov2

UpdatedState(state, k) ==
    [state EXCEPT !.pos = <<k, 2, 3>>,
                  !.att = <<0, 0, 0, 1>>,
                  !.dep = [i \in Slots |-> Dec(25 + i, -1)],
                  !.nor = [i \in Slots |-> <<1, 0, 0>>]]

Init ==
    /\ state_ = FilterStateCtor.state_
    /\ cov_ = FilterStateCtor.cov_
    /\ active = {}
    /\ last = NoCall
    /\ last2 = NoCall

\* A call of initializeFeatureState(i, a.n, a.d, a.initCov).
InitializeFeatureStateCall(i, a, before) ==
    LET fs == initializeFeatureState(Here, i, a.n, a.d, a.initCov)
    IN  /\ state_' = fs.state_
        /\ cov_' = fs.cov_
        /\ active' = active \cup {i}
        /\ last' = [op |-> "initializeFeatureState", i |-> i, n |-> a.n,
                    d |-> a.d, initCov |-> a.initCov, pre |-> Here]
        /\ last2' = before

\* A call of removeFeature(i).
RemoveFeatureCall(i, before) ==
    LET fs == removeFeature(Here, i)
    IN  /\ state_' = fs.state_
        /\ cov_' = fs.cov_
        /\ active' = active \ {i}
        /\ last' = [op |-> "removeFeature", i |-> i, pre |-> Here]
        /\ last2' = before

\* A prediction or update step of the filter: it rewrites the mean state and
\* the whole covariance matrix.
FilterUpdate(k) ==
    /\ state_' = UpdatedState(state_, k)
    /\ cov_' = UpdatedCov(k)
    /\ last' = [op |-> "update", k |-> k, pre |-> Here]
    /\ last2' = NoCall
    /\ UNCHANGED active

\* A call of get_depth(i).
GetDepthCall(i) ==
    /\ last' = [op |-> "get_depth", i |-> i, ret |-> get_depth(state_, i),
                pre |-> Here]
    /\ last2' = IF last.op = "get_depth" THEN last2 ELSE last
    /\ UNCHANGED <<state_, cov_, active>>

\* Feature lifecycle on a filter that the update steps keep correlating.
Next ==
    \/ \E i \in Slots, a \in InitArgs : InitializeFeatureStateCall(i, a, NoCall)
    \/ \E i \in Slots : RemoveFeatureCall(i, NoCall)
    \/ \E k \in UpdateKinds : FilterUpdate(k)

Spec == Init /\ [][Next]_vars

\* The removeFeature call that the next call follows, if it follows one.
PrecedingRemove == IF last.op = "removeFeature" THEN last ELSE NoCall

\* The same, remembering the removeFeature call before the last call.
NextPair ==
    \/ \E i \in Slots, a \in InitArgs :
          InitializeFeatureStateCall(i, a, PrecedingRemove)
    \/ \E i \in Slots : RemoveFeatureCall(i, PrecedingRemove)
    \/ \E k \in UpdateKinds : FilterUpdate(k)

SpecPair == Init /\ [][NextPair]_vars

\* A freshly constructed filter: features come and go, depths are read.
NextFresh ==
    \/ \E i \in Slots, a \in InitArgs : InitializeFeatureStateCall(i, a, NoCall)
    \/ \E i \in Slots : RemoveFeatureCall(i, NoCall)
    \/ \E i \in Slots : GetDepthCall(i)

SpecFresh == Init /\ [][NextFresh]_vars

\* Extrinsics written to a camera: the defaults, and a half turn about z
\* with an offset.
ExtrinsicsVals ==
    {[q |-> QuatIdentity, v |-> V3Zero], [q |-> <<0, 0, 0, 1>>, v |-> <<1, 2, 3>>]}

\* The calibration flag is switched (a public field of the auxiliary state).
SetDoVECalibration(b) ==
    /\ state_' = [state_ EXCEPT !.aux.doVECalibration_ = b]
    /\ last' = [op |-> "doVECalibration_", b |-> b, pre |-> Here]
    /\ last2' = NoCall
    /\ UNCHANGED <<cov_, active>>

\* The update step writes the estimated extrinsics of a camera.
WriteEstimatedExtrinsics(camID, x) ==
    /\ state_' = [state_ EXCEPT !.vea[camID] = x.q, !.vep[camID] = x.v]
    /\ last' = [op |-> "vea_vep", camID |-> camID, pre |-> Here]
    /\ last2' = NoCall
    /\ UNCHANGED <<cov_, active>>

\* The configuration writes the cached extrinsics of a camera.
WriteCachedExtrinsics(camID, x) ==
    /\ state_' = [state_ EXCEPT !.aux.qCM_[camID] = x.q, !.aux.MrMC_[camID] = x.v]
    /\ last' = [op |-> "qCM_MrMC_", camID |-> camID, pre |-> Here]
    /\ last2' = NoCall
    /\ UNCHANGED <<cov_, active>>

\* A call of get_qCM(camID).
GetQCMCall(camID) ==
    /\ last' = [op |-> "get_qCM", camID |-> camID,
                ret |-> get_qCM(state_, camID), pre |-> Here]
    /\ last2' = NoCall
    /\ UNCHANGED <<state_, cov_, active>>

\* A call of get_MrMC(camID).
GetMrMCCall(camID) ==
    /\ last' = [op |-> "get_MrMC", camID |-> camID,
                ret |-> get_MrMC(state_, camID), pre |-> Here]
    /\ last2' = NoCall
    /\ UNCHANGED <<state_, cov_, active>>

\* Extrinsics: both sources are written, the flag is switched, both accessors
\* are read.
NextExtrinsics ==
    \/ \E b \in BOOLEAN : SetDoVECalibration(b)
    \/ \E camID \in Cams, x \in ExtrinsicsVals :
          WriteEstimatedExtrinsics(camID, x)
    \/ \E camID \in Cams, x \in ExtrinsicsVals :
          WriteCachedExtrinsics(camID, x)
    \/ \E camID \in Cams : GetQCMCall(camID)
    \/ \E camID \in Cams : GetMrMCCall(camID)

SpecExtrinsics == Init /\ [][NextExtrinsics]_vars

\* Selectors handed to DepthMap::setType(const int&).
TypeSelectors == (-1) .. 4

\* Depth parameters handed to DepthMap::map: zero, both signs inside and on
\* the clamp of the inverse encoding, and ordinary values.
DepthParams ==
    {Dec(0, 0), Dec(1, -7), Dec(-1, -7), Dec(5, -7), Dec(-5, -7),
     Dec(1, -6), Dec(-1, -6), Dec(2, -6), Dec(5, -1), Dec(1, 0), Dec(2, 0),
     Dec(-2, 0), Dec(25, -1)}

\* A call of depthMap_.setType(type) with an integer selector.
SetTypeCall(type) ==
    LET r == setType(state_.aux.depthMap_, type)
    IN  /\ state_' = [state_ EXCEPT !.aux.depthMap_ = r.depthMap]
        /\ last' = [op |-> "setType", type |-> type, cout |-> r.cout,
                    pre |-> Here]
        /\ last2' = NoCall
        /\ UNCHANGED <<cov_, active>>

\* A call of depthMap_.map(p, d, d_p, p_d, p_d_p).
MapCall(p) ==
    /\ last' = [op |-> "map", p |-> p, ret |-> map(state_.aux.depthMap_, p),
                pre |-> Here]
    /\ last2' = NoCall
    /\ UNCHANGED <<state_, cov_, active>>

\* Depth encodings: the encoding is selected, parameters are evaluated,
\* features are removed and their depths read.
NextDepth ==
    \/ \E type \in TypeSelectors : SetTypeCall(type)
    \/ \E p \in DepthParams : MapCall(p)
    \/ \E i \in Slots : RemoveFeatureCall(i, NoCall)
    \/ \E i \in Slots : GetDepthCall(i)

SpecDepth == Init /\ [][NextDepth]_vars

\* Poses handed to initWithImuPose: positions, and the identity and the half
\* turns about the three axes (each as both of its unit quaternions).
PosePositions == {<<0, 0, 0>>, <<0, 0, 1>>, <<1, 2, 3>>}

PoseOrientations ==
    {<<1, 0, 0, 0>>, <<-1, 0, 0, 0>>, <<0, 1, 0, 0>>, <<0, -1, 0, 0>>,
     <<0, 0, 1, 0>>, <<0, 0, -1, 0>>, <<0, 0, 0, 1>>, <<0, 0, 0, -1>>}

\* A call of initWithImuPose(WrWM, qMW).
InitWithImuPoseCall(WrWM, qMW) ==
    LET fs == initWithImuPose(Here, WrWM, qMW)
    IN  /\ state_' = fs.state_
        /\ cov_' = fs.cov_
        /\ last' = [op |-> "initWithImuPose", WrWM |-> WrWM, qMW |-> qMW,
                    pre |-> Here]
        /\ last2' = NoCall
        /\ UNCHANGED active

\* Start-up: the pose is set, on a constructed or an updated filter.
NextPose ==
    \/ \E WrWM \in PosePositions, qMW \in PoseOrientations :
          InitWithImuPoseCall(WrWM, qMW)
    \/ \E k \in UpdateKinds : FilterUpdate(k)

SpecPose == Init /\ [][NextPose]_vars

----------------------------------------------------------------------------
(* Feature lifecycle: claims                                               *)

\* What an entry of an unused slot's rows and columns holds.
IdentityEntry(r, c) == IF r = c THEN 1 ELSE 0

\* The filter fs with slot i as the constructor leaves it.
Pristine(fs, i) ==
    [state_ |-> [fs.state_ EXCEPT !.dep[i] = FilterStateCtor.state_.dep[i],
                                  !.nor[i] = FilterStateCtor.state_.nor[i]],
     cov_ |-> [r \in Ids |-> [c \in Ids |->
                  IF r \in SlotIds(i) \/ c \in SlotIds(i)
                  THEN FilterStateCtor.cov_[r][c] ELSE fs.cov_[r][c]]]]

\* C1: immediately after initializeFeatureState(i, n, d, C) the covariance
\* entries at slot i's indices [depth, bearing1, bearing2] equal C entry for
\* entry, and every entry with exactly one of its row and column among those
\* indices is zero, whatever the covariance held before.
C1_InitWritesBlock ==
    last.op = "initializeFeatureState" =>
        LET ids == <<depId(last.i), norId(last.i), norId(last.i) + 1>>
        IN  /\ \A a \in 1 .. 3, b \in 1 .. 3 :
                 cov_[ids[a]][ids[b]] = last.initCov[a - 1][b - 1]
            /\ \A r \in Ids, c \in Ids :
                 ((r \in SlotIds(last.i)) # (c \in SlotIds(last.i)))
                     => cov_[r][c] = 0

\* C1 witness: a slot initialized with a non-symmetric C on a filter whose
\* covariance was fully correlated.
C1_Witness ==
    /\ last.op = "initializeFeatureState"
    /\ last.initCov[0][1] # last.initCov[1][0]
    /\ \A r \in Ids, c \in Ids : last.pre.cov_[r][c] >= 20

\* C2: immediately after removeFeature(i) the slot's depth parameter is 1.0,
\* its bearing is the reference direction, its depth and bearing
\* self-covariance are identity and every other entry of the slot's rows and
\* columns is zero (the depth-to-bearing entries of the slot included).
C2_RemoveResetsSlot ==
    last.op = "removeFeature" =>
        /\ state_.dep[last.i] = Dec(1, 0)
        /\ state_.nor[last.i] = NorIdentity
        /\ \A r \in Ids, c \in Ids :
             (r \in SlotIds(last.i) \/ c \in SlotIds(last.i))
                 => cov_[r][c] = IdentityEntry(r, c)

\* C2 witness: a removal on a fully correlated covariance and changed means.
C2_Witness ==
    /\ last.op = "removeFeature"
    /\ last.pre.state_.dep[last.i] # Dec(1, 0)
    /\ last.pre.state_.nor[last.i] # NorIdentity
    /\ \A r \in Ids, c \in Ids : last.pre.cov_[r][c] >= 20

\* C3: initializeFeatureState(i, ..) and removeFeature(i) change no
\* covariance entry whose row and column are both outside slot i's indices,
\* no mean block other than dep(i) and nor(i), and nothing of the auxiliary
\* buffer.
C3_FrameOutsideSlot ==
    last.op \in {"initializeFeatureState", "removeFeature"} =>
        /\ \A r \in Ids \ SlotIds(last.i), c \in Ids \ SlotIds(last.i) :
             cov_[r][c] = last.pre.cov_[r][c]
        /\ [state_ EXCEPT !.dep[last.i] = last.pre.state_.dep[last.i],
                          !.nor[last.i] = last.pre.state_.nor[last.i]]
             = last.pre.state_

\* C3 witness: a removal while the other slots and the body blocks are
\* correlated and away from their defaults.
C3_Witness ==
    /\ last.op = "removeFeature"
    /\ last.pre.state_.pos # V3Zero
    /\ \A r \in Ids, c \in Ids : last.pre.cov_[r][c] >= 20

\* C4: from the identity covariance with all slots inactive, after any
\* sequence of initializeFeatureState and removeFeature calls every inactive
\* slot has identity self-covariance and zero covariance with every other
\* state dimension.
C4_InactiveSlotIdentity ==
    \A i \in Slots \ active :
        \A r \in Ids, c \in Ids :
            (r \in SlotIds(i) \/ c \in SlotIds(i))
                => cov_[r][c] = IdentityEntry(r, c)

\* C4 witness: a slot removed after use, and another slot initialized after
\* that and still active.
C4_Witness ==
    /\ last.op = "initializeFeatureState"
    /\ \E i \in Slots \ active : state_.dep[i] = Dec(1, 0)

\* C5: removeFeature(i) followed by initializeFeatureState(i, n, d, C) leaves
\* the mean state and covariance that initializeFeatureState(i, n, d, C)
\* alone leaves from the state before the removal with slot i pristine.
C5_RemoveThenInit ==
    (/\ last.op = "initializeFeatureState"
     /\ last2.op = "removeFeature"
     /\ last2.i = last.i) =>
        Here = initializeFeatureState(Pristine(last2.pre, last.i), last.i,
                                      last.n, last.d, last.initCov)

\* C5 witness: a used slot of a correlated filter removed and initialized
\* again.
C5_Witness ==
    /\ last.op = "initializeFeatureState"
    /\ last2.op = "removeFeature"
    /\ last2.i = last.i
    /\ last2.pre # Pristine(last2.pre, last.i)
    /\ \A r \in Ids, c \in Ids : last2.pre.cov_[r][c] >= 20

\* C6: removeFeature(i); removeFeature(i) leaves the mean state and
\* covariance that the first removeFeature(i) left.
C6_RemoveIdempotent ==
    (/\ last.op = "removeFeature"
     /\ last2.op = "removeFeature"
     /\ last2.i = last.i) =>
        Here = last.pre

\* C6 witness: a slot of a correlated filter removed twice in a row.
C6_Witness ==
    /\ last.op = "removeFeature"
    /\ last2.op = "removeFeature"
    /\ last2.i = last.i
    /\ \A r \in Ids, c \in Ids : last2.pre.cov_[r][c] >= 20

----------------------------------------------------------------------------
(* Accessors and depth encodings: claims                                   *)

\* C7: on a freshly constructed FilterState, after
\* initializeFeatureState(i, n, d, C), get_depth(i) returns the depth d that
\* was supplied.
C7_DepthAsSupplied ==
    (/\ last.op = "get_depth"
     /\ last2.op = "initializeFeatureState"
     /\ last2.i = last.i) =>
        last.ret = last2.d

\* C8: get_qCM(camID) and get_MrMC(camID) return the estimated extrinsics
\* (vea, vep) when doVECalibration_ is true and the cached ones (qCM_, MrMC_)
\* when it is false, after any toggles and writes, and the two accessors
\* read from the same source.
C8_ExtrinsicsSource ==
    /\ last.op = "get_qCM" =>
          last.ret = IF state_.aux.doVECalibration_
                     THEN state_.vea[last.camID] ELSE state_.aux.qCM_[last.camID]
    /\ last.op = "get_MrMC" =>
          last.ret = IF state_.aux.doVECalibration_
                     THEN state_.vep[last.camID] ELSE state_.aux.MrMC_[last.camID]
    /\ \A camID \in Cams :
          (/\ state_.vea[camID] # state_.aux.qCM_[camID]
           /\ state_.vep[camID] # state_.aux.MrMC_[camID]) =>
              ((get_qCM(state_, camID) = state_.vea[camID])
                  <=> (get_MrMC(state_, camID) = state_.vep[camID]))

\* C8 witness: the flag switched off, the two sources of a camera apart, and
\* the offset read.
C8_Witness ==
    /\ last.op = "get_MrMC"
    /\ ~state_.aux.doVECalibration_
    /\ state_.vep[last.camID] # state_.aux.MrMC_[last.camID]
    /\ state_.vea[last.camID] # state_.aux.qCM_[last.camID]

\* C9: DepthMap::setType(int) with a selector outside {0,1,2,3} reports it
\* and substitutes no encoding: the encoding selected before stays.
C9_InvalidSelectorRejected ==
    (last.op = "setType" /\ last.type \notin 0 .. 3) =>
        /\ last.cout
        /\ state_.aux.depthMap_.type_ = last.pre.state_.aux.depthMap_.type_

\* C10: under the Inverse encoding, for |p| < 1e-6 (p = 0 and negative p
\* included) the depth is that of the sign-preserving clamped boundary (1e6
\* for p >= 0, -1e6 for p < 0); for every p the divisor is not zero and
\* |d| <= 1e6; for |p| >= 1e-6 the parameter is used unclamped, d = 1/p.
C10_InverseClamp ==
    (last.op = "map" /\ state_.aux.depthMap_.type_ = "INVERSE") =>
        /\ DecAbsLess(last.p, Dec(1, -6)) =>
              last.ret.d = IF last.p.m >= 0 THEN Dec(1, 6) ELSE Dec(-1, 6)
        /\ last.ret.p_d.m # 0
        /\ ~DecAbsLess(Dec(1, 6), last.ret.d)
        /\ ~DecAbsLess(last.p, Dec(1, -6)) =>
              DecMul(last.ret.d, last.p) = Dec(1, 0)

\* C10 witness: the parameter zero evaluated under the Inverse encoding.
C10_Witness ==
    /\ last.op = "map"
    /\ state_.aux.depthMap_.type_ = "INVERSE"
    /\ last.p = Dec(0, 0)

----------------------------------------------------------------------------
(* Pose initialization, depth after removal, symmetry: claims              *)

\* C11: after initWithImuPose(WrWM, qMW), get_WrWM() is the supplied WrWM and
\* get_qWM() the inverse of the supplied qMW, and no other state block and no
\* covariance entry has changed.
C11_PoseAsSupplied ==
    last.op = "initWithImuPose" =>
        /\ get_WrWM(state_) = last.WrWM
        /\ QuatMul(get_qWM(state_), last.qMW) = QuatIdentity
        /\ [state_ EXCEPT !.pos = last.pre.state_.pos,
                          !.att = last.pre.state_.att] = last.pre.state_
        /\ cov_ = last.pre.cov_

\* C12: for every slot i and each of the four depth encodings, immediately
\* after removeFeature(i) get_depth(i) is finite (below the largest double)
\* and strictly positive.
C12_RemovedDepthPositive ==
    (/\ last.op = "get_depth"
     /\ last2.op = "removeFeature"
     /\ last2.i = last.i) =>
        /\ last.ret.m > 0
        /\ DecAbsLess(last.ret, Dec(1, 308))

\* C12 witness: the depth of a just removed slot read under the Hyperbolic
\* encoding.
C12_Witness ==
    /\ last.op = "get_depth"
    /\ last2.op = "removeFeature"
    /\ last2.i = last.i
    /\ state_.aux.depthMap_.type_ = "HYPERBOLIC"

\* a D_ x D_ matrix equals its transpose
IsSymmetric(M) == \A r \in Ids, c \in Ids : M[r][c] = M[c][r]

\* C13: a symmetric covariance matrix is symmetric after removeFeature(i),
\* and after initializeFeatureState(i, n, d, C) whenever C is symmetric.
C13_SymmetryKept ==
    (/\ last.op \in {"initializeFeatureState", "removeFeature"}
     /\ IsSymmetric(last.pre.cov_)
     /\ last.op = "initializeFeatureState" =>
           \A a \in 0 .. 2, b \in 0 .. 2 : last.initCov[a][b] = last.initCov[b][a])
        => IsSymmetric(cov_)

\* C13 witness: a slot initialized with a symmetric C, not diagonal, on a
\* symmetric covariance with every entry correlated.
C13_Witness ==
    /\ last.op = "initializeFeatureState"
    /\ IsSymmetric(last.pre.cov_)
    /\ \A r \in Ids, c \in Ids : last.pre.cov_[r][c] >= 20
    /\ \A a \in 0 .. 2, b \in 0 .. 2 : last.initCov[a][b] = last.initCov[b][a]
    /\ last.initCov[0][1] # 0

=============================================================================
